---- MODULE Spec2Model ----
(***************************************************************************)
(* Model of create_icons.py: a script that renders three square PNG icons  *)
(* (a solid background and a centred two-glyph label) into dist/icons.     *)
(*                                                                         *)
(* One process, one thread.  pc is the statement about to run.  A Python   *)
(* str is a sequence of characters; what reaches standard output is a      *)
(* string of bytes.  The module's strings are ASCII only, so a Hangul      *)
(* syllable and U+2713 are written as three-letter names: the three bytes  *)
(* of their UTF-8 encoding (the first two letters are the two bytes of     *)
(* the cp949 encoding).                                                    *)
(*                                                                         *)
(* The interpreter, the image library (Pillow), the filesystem and the     *)
(* device behind standard output are the environment: whether the library  *)
(* imports, which fonts load and what they measure, whether a filesystem   *)
(* call faults, how standard output is set up and what each write(2) to    *)
(* it returns are inputs.                                                  *)
(***************************************************************************)
EXTENDS Integers, Sequences, FiniteSets, TLC

(* ------------------------------ bounds -------------------------------- *)
\* Number of times the script is run, one after the other, on the same disk.
MaxRuns == 2
\* The label's side bearing (bbox[0]) ranges over -MaxBearing..MaxBearing px.
MaxBearing == 1
\* The gap between the ascender line and the ink top (bbox[1]) ranges over
\* 0..MaxTopTenths tenths of the font's pixel size.
MaxTopTenths == 2
\* Ink width and height of the two-glyph label, in tenths of the pixel size.
InkWidthTenths == 13
InkHeightTenths == 7
\* How many writes of a run the device of standard output may cut short.
MaxShortWrites == 1
\* The byte counts a short write may stop at.
ShortCut == 10
LongCut == 100
\* How many answers of the device are drawn for the flushes at exit.
MaxExitAnswers == 5

(* --------------------------- program constants ------------------------ *)
NL == "\n"
None == "None"
Absent == "absent"
Partial == "partial"

\* Mutant: the list in another order.
sizesShuffled == <<48, 16, 128>>

sizes == <<16, 48, 128>>

\* output_dir = "dist/icons", kept as its path components.
output_dir_parts == <<"dist", "icons">>

RECURSIVE JoinPath(_)
JoinPath(parts) ==
    IF Len(parts) = 1 THEN parts[1]
    ELSE JoinPath(SubSeq(parts, 1, Len(parts) - 1)) \o "/" \o parts[Len(parts)]

output_dir == JoinPath(output_dir_parts)

\* Mutant: the size left out of the file name.
FilenameNoSize(size) == output_dir \o "/icon.png"

\* f"{output_dir}/icon{size}.png"
Filename(size) == output_dir \o "/icon" \o ToString(size) \o ".png"

\* A file of the output directory that the script does not name.
StrayFile == output_dir \o "/stray.txt"

IconFiles == {Filename(sizes[k]) : k \in 1..Len(sizes)}
FileNames == IconFiles \cup {StrayFile}

\* The built-in font of ImageFont.load_default() has a fixed pixel size.
DefaultFontSize == 10

BackgroundColor == "#4A90E2"
TextColor == "white"

Min(a, b) == IF a <= b THEN a ELSE b
Max(a, b) == IF a >= b THEN a ELSE b

(* -------------------------------- text -------------------------------- *)
\* The characters of a string of ASCII characters.
RECURSIVE Chars(_)
Chars(s) == IF s = "" THEN <<>> ELSE <<Head(s)>> \o Chars(Tail(s))

\* U+2713, the check mark of line 53.
CheckMark == "[v]"

\* What a character is: one letter is an ASCII character, a name of three
\* letters is the check mark or a Hangul syllable.
Script(c) ==
    IF Len(c) = 1 THEN "ascii" ELSE IF c = CheckMark THEN "check" ELSE "hangul"

\* text = "A한" (line 27)
Label == <<"A", "HAN">>

\* The texts printed (lines 10, 11, 53, 55, 56).
MsgRequired ==
    Chars("Pillow ") \o <<"RA_", "I__", "BEU", "REO", "RI_", "GA_">> \o Chars(" ")
        \o <<"PIL", "YO_", "HAB", "NI_", "DA_">> \o Chars(".")
MsgInstall == <<"SEL", "CHI">> \o Chars(": pip install Pillow")
ConfirmText(filename) ==
    <<CheckMark>> \o Chars(" " \o filename \o " ") \o <<"SNG", "SEO">> \o Chars(" ")
        \o <<"WAN", "RYO">>
\* Mutant: the summary without its leading newline.
SummaryTextNoBlank ==
    <<"MO_", "DEN">> \o Chars(" ") \o <<"A__", "I__", "KON", "I__">> \o Chars(" ")
        \o <<"SNG", "SEO", "DOE", "EOT", "SEB", "NI_", "DA_">> \o Chars("!")
SummaryText ==
    <<NL, "MO_", "DEN">> \o Chars(" ") \o <<"A__", "I__", "KON", "I__">> \o Chars(" ")
        \o <<"SNG", "SEO", "DOE", "EOT", "SEB", "NI_", "DA_">> \o Chars("!")
LocationText == <<"WI_", "CHI">> \o Chars(": " \o output_dir \o "/")

(* ------------------------------ printing ------------------------------ *)
\* The encodings standard output may have, by what they can represent: all of
\* Unicode, Hangul but not U+2713, or ASCII only.
Encodings == {"utf-8", "cp949", "ascii"}

Repertoire(enc) ==
    CASE enc = "utf-8" -> {"ascii", "hangul", "check"}
      [] enc = "cp949" -> {"ascii", "hangul"}
      [] OTHER -> {"ascii"}

\* Whether str.encode(enc) succeeds (errors are strict).
Encodable(text, enc) == \A i \in 1..Len(text) : Script(text[i]) \in Repertoire(enc)

\* The bytes of one character: an ASCII character is one byte; a Hangul
\* syllable or U+2713 is three bytes in UTF-8 and two in cp949.
EncodeChar(c, enc) ==
    IF Len(c) = 1 \/ enc = "utf-8" THEN c ELSE SubSeq(c, 1, 2)

\* text.encode(enc), for a text the encoding can represent.
RECURSIVE Encode(_, _)
Encode(text, enc) ==
    IF text = <<>> THEN "" ELSE EncodeChar(Head(text), enc) \o Encode(Tail(text), enc)

\* How sys.stdout is set up: buffered in blocks (a file or a pipe), by lines
\* (a terminal), not at all (python -u, PYTHONUNBUFFERED), or None because
\* file descriptor 1 is closed.  Not buffered, the text layer writes through
\* what it is given ("unbuffered": CPython from 3.7 on) or gathers it up to
\* a newline and writes that through ("unbuffered_lines": CPython 3.6).
Bufferings == {"block", "line", "unbuffered", "unbuffered_lines", "closed"}

\* What write(2) on file descriptor 1 returns for n bytes: -1 (the device
\* rejects the write: disk full, closed pipe) or the number of bytes taken,
\* which may be fewer than n.  The device's answers to the writes of an
\* operation are a sequence, one answer per write; when the sequence is used
\* up the device takes every write whole.
Rejected == 0 - 1
Answer(plan, n) == IF plan = <<>> THEN n ELSE Head(plan)
Rest(plan) == IF plan = <<>> THEN <<>> ELSE Tail(plan)

\* One write of an unbuffered stream: a single write(2), whose count is not
\* looked at, so the bytes a short write leaves out are lost; an error is
\* raised as OSError.
RawWrite(out, bytes, plan) ==
    LET ret == Answer(plan, Len(bytes))
        k == Min(ret, Len(bytes))
    IN  IF ret < 0
        THEN [ok |-> FALSE, out |-> out, plan |-> Rest(plan), shorts |-> 0, rejects |-> 1]
        ELSE [ok |-> TRUE, out |-> out \o SubSeq(bytes, 1, k), plan |-> Rest(plan),
              shorts |-> IF k < Len(bytes) THEN 1 ELSE 0, rejects |-> 0]

\* flush() of a buffered stream: write(2) of what the buffer holds, again
\* with the rest after a short write, until the buffer is empty; an error is
\* raised as OSError and the buffer keeps what was not written.
RECURSIVE Flush(_, _, _)
Flush(out, buf, plan) ==
    IF buf = ""
    THEN [ok |-> TRUE, out |-> out, buf |-> buf, plan |-> plan, shorts |-> 0,
          rejects |-> 0]
    ELSE LET ret == Answer(plan, Len(buf))
             k == Min(ret, Len(buf))
         IN  IF ret < 0
             THEN [ok |-> FALSE, out |-> out, buf |-> buf, plan |-> Rest(plan),
                   shorts |-> 0, rejects |-> 1]
             ELSE IF k = Len(buf)
             THEN [ok |-> TRUE, out |-> out \o buf, buf |-> "", plan |-> Rest(plan),
                   shorts |-> 0, rejects |-> 0]
             ELSE LET r == Flush(out \o SubSeq(buf, 1, k),
                                 SubSeq(buf, k + 1, Len(buf)), Rest(plan))
                  IN  [r EXCEPT !.shorts = @ + 1]

HasNewline(text) == \E i \in 1..Len(text) : text[i] = NL

\* print(text) on sys.stdout.  out is what the device has received, buf what
\* the stream holds, plan the device's answers to the writes print makes.
\*   closed:     sys.stdout is None and print does nothing.
\*   otherwise the text is encoded first: a text the encoding cannot
\*               represent raises UnicodeEncodeError, nothing written.
\*   block:      text and newline go to the buffer, no write(2).
\*   line:       the text goes to the buffer, flushed at once if it holds a
\*               newline; then the newline goes to the buffer, flushed.
\*   unbuffered: one write(2) for the text, one for the newline.
\*   unbuffered_lines: one write(2) for the text and the newline together;
\*               a text that holds a newline is written at once, and the
\*               newline after it by a write of its own.
\* An OSError leaves print at the write that raised it.
PyPrint(out, buf, text, enc, mode, plan) ==
    IF mode = "closed"
    THEN [ok |-> TRUE, err |-> "none", out |-> out, buf |-> buf, plan |-> plan,
          shorts |-> 0, rejects |-> 0]
    ELSE IF ~Encodable(text, enc)
    THEN [ok |-> FALSE, err |-> "encode", out |-> out, buf |-> buf, plan |-> plan,
          shorts |-> 0, rejects |-> 0]
    ELSE IF mode = "block"
    THEN [ok |-> TRUE, err |-> "none", out |-> out,
          buf |-> buf \o Encode(text, enc) \o NL, plan |-> plan,
          shorts |-> 0, rejects |-> 0]
    ELSE IF mode = "line"
    THEN LET held == buf \o Encode(text, enc)
             f1 == IF HasNewline(text) THEN Flush(out, held, plan)
                   ELSE [ok |-> TRUE, out |-> out, buf |-> held, plan |-> plan,
                         shorts |-> 0, rejects |-> 0]
             f2 == Flush(f1.out, f1.buf \o NL, f1.plan)
         IN  IF ~f1.ok
             THEN [ok |-> FALSE, err |-> "oserror", out |-> f1.out, buf |-> f1.buf,
                   plan |-> f1.plan, shorts |-> f1.shorts, rejects |-> f1.rejects]
             ELSE [ok |-> f2.ok, err |-> IF f2.ok THEN "none" ELSE "oserror",
                   out |-> f2.out, buf |-> f2.buf, plan |-> f2.plan,
                   shorts |-> f1.shorts + f2.shorts, rejects |-> f2.rejects]
    ELSE LET together == mode = "unbuffered_lines" /\ ~HasNewline(text)
             w1 == RawWrite(out, IF together THEN Encode(text, enc) \o NL
                                 ELSE Encode(text, enc), plan)
             w2 == IF together
                   THEN [ok |-> TRUE, out |-> w1.out, plan |-> w1.plan,
                         shorts |-> 0, rejects |-> 0]
                   ELSE RawWrite(w1.out, NL, w1.plan)
         IN  IF ~w1.ok
             THEN [ok |-> FALSE, err |-> "oserror", out |-> w1.out, buf |-> buf,
                   plan |-> w1.plan, shorts |-> 0, rejects |-> 1]
             ELSE [ok |-> w2.ok, err |-> IF w2.ok THEN "none" ELSE "oserror",
                   out |-> w2.out, buf |-> buf, plan |-> w2.plan,
                   shorts |-> w1.shorts + w2.shorts, rejects |-> w2.rejects]

\* The interpreter flushes sys.stdout when the script has ended, however it
\* ended.  It tries ExitFlushes times: once right after the script ran (a
\* failure is ignored), once when it finalizes (the flush whose failure is
\* reported: the exit status becomes 120), and twice more while the stream
\* is torn down (failures ignored).  Each try goes on with what the one
\* before left in the buffer.
ExitFlushes == 4
ReportedFlush == 2

\* The tries from the k-th on; s is the stream and the status so far.
RECURSIVE FlushesFrom(_, _)
FlushesFrom(k, s) ==
    IF k > ExitFlushes THEN s
    ELSE LET f == Flush(s.out, s.buf, s.plan)
         IN  FlushesFrom(k + 1,
                 [out |-> f.out, buf |-> f.buf, plan |-> f.plan,
                  status |-> IF k = ReportedFlush /\ ~f.ok THEN "120" ELSE s.status,
                  shorts |-> s.shorts + f.shorts,
                  rejects |-> s.rejects + f.rejects])

\* The flushes at exit of a process that would end with status: what the
\* device has received, what is left in the buffer and lost, the status.
FlushAtExit(out, buf, plan, status) ==
    FlushesFrom(1, [out |-> out, buf |-> buf, plan |-> plan, status |-> status,
                    shorts |-> 0, rejects |-> 0])

\* The lines of a string of bytes: what each newline ends, and what follows
\* the last.
RECURSIVE SplitLines(_)
SplitLines(out) ==
    IF out = "" THEN <<>>
    ELSE LET ends == {i \in 1..Len(out) : SubSeq(out, i, i) = NL}
         IN  IF ends = {} THEN <<out>>
             ELSE LET e == CHOOSE i \in ends : \A j \in ends : i <= j
                  IN  <<SubSeq(out, 1, e - 1)>> \o SplitLines(SubSeq(out, e + 1, Len(out)))

\* The lines standard output shows.
Lines(out) == SplitLines(out)

\* The answers drawn for the device: a rejection, or a short write.
Cuts == {0, ShortCut, LongCut}
Faults == {Rejected} \cup Cuts

\* The answers drawn for the print of a text of n bytes, which makes one
\* write, of the n bytes and the newline, or two: the first answer may cut
\* the write anywhere up to the newline, the second rejects or loses what
\* is written next.
WritePlans(n) ==
    {<<>>} \cup {<<a>> : a \in Faults \cup {n}}
        \cup {<<a, b>> : a \in Cuts \cup {n}, b \in {Rejected, 0}}

\* The answers drawn for the flushes at exit.
ExitPlans ==
    {p \in UNION {[1..k -> Faults] : k \in 0..MaxExitAnswers} :
        Cardinality({i \in DOMAIN p : p[i] >= 0}) <= MaxShortWrites}

(* ------------------------------ filesystem ---------------------------- *)
AbsentFile == [format |-> Absent]
PartialFile == [format |-> Partial]
StrayContent == [format |-> "text"]

\* The directories on the path to parts, the last being the path itself.
PathPrefixes(parts) == {JoinPath(SubSeq(parts, 1, k)) : k \in 1..Len(parts)}

\* Mutant: os.makedirs(output_dir), exist_ok left at its default.
ExistOkDefault == FALSE

\* exist_ok=True of os.makedirs(output_dir, exist_ok=True).
ExistOk == TRUE

\* os.makedirs(path, exist_ok): creates the missing directories of the path,
\* parents first.  Where the leaf is a directory already, whatever mkdir
\* raises (that the file exists, or a fault of the filesystem) is an error
\* unless exist_ok, and with exist_ok it is dropped.  Where the leaf is
\* missing, fault is the filesystem's: "none", "refused" (nothing created) or
\* "leaf_refused" (the parents created, the leaf not).
Makedirs(dirs, parts, exist_ok, fault) ==
    LET path == JoinPath(parts)
        parents == PathPrefixes(parts) \ {path}
    IN  IF path \in dirs THEN [ok |-> exist_ok, dirs |-> dirs]
        ELSE IF fault = "refused" THEN [ok |-> FALSE, dirs |-> dirs]
        ELSE IF fault = "leaf_refused" THEN [ok |-> FALSE, dirs |-> dirs \cup parents]
        ELSE [ok |-> TRUE, dirs |-> dirs \cup parents \cup {path}]

MakedirsFaults == {"none", "refused", "leaf_refused"}

(* -------------------------------- images ------------------------------ *)
NoInk == [drawn |-> FALSE]
NoImage == [mode |-> None]
NoFrame == [active |-> FALSE]

\* font_size = int(size * 0.4)
font_size(size) == (size * 4) \div 10

\* Mutant: the font size taken for the canvas height.
NewImageFontSized(size) ==
    [mode |-> "RGB", width |-> size, height |-> font_size(size),
     bg |-> BackgroundColor, ink |-> NoInk]

\* Image.new('RGB', (size, size), color='#4A90E2')
NewImage(size) ==
    [mode |-> "RGB", width |-> size, height |-> size,
     bg |-> BackgroundColor, ink |-> NoInk]

\* What ImageFont.load_default() gives: a scalable font the library carries
\* (Pillow from 10.1 on, built with FreeType) or the bitmap font of older
\* releases and of builds without FreeType.
BuiltinFonts == {"freetype", "bitmap"}

\* try: ImageFont.truetype(path, font_size)  except: ImageFont.load_default()
\* ok: whether the system font loads; builtin: the library's built-in font.
LoadFont(ok, px, builtin) ==
    IF ok THEN [kind |-> "truetype", px |-> px, face |-> "Arial"]
    ELSE [kind |-> "default", px |-> DefaultFontSize, face |-> builtin]

\* Whether draw.textbbox(xy, text, font=font) returns.  The bitmap font
\* holds Latin-1 glyphs only and is not a FreeType font: measuring a text
\* with a character outside Latin-1 raises (ValueError "Only supported for
\* TrueType fonts" in the releases that refuse every text, UnicodeEncodeError
\* in the others).
Measurable(font, text) ==
    font.face # "bitmap" \/ \A i \in 1..Len(text) : Script(text[i]) = "ascii"

\* The measures a font gives the label: side bearing in pixels, top gap in
\* tenths of the font's pixel size.
Profiles == [lb : (0 - MaxBearing)..MaxBearing, top : 0..MaxTopTenths]

\* draw.textbbox(xy, text, font=font): (left, top, right, bottom) of the ink
\* of the label drawn at xy.
TextBBox(xy, font, prof) ==
    LET l == prof.lb
        t == (font.px * prof.top) \div 10
        w == Max(1, (font.px * InkWidthTenths) \div 10)
        h == Max(1, (font.px * InkHeightTenths) \div 10)
    IN  <<xy[1] + l, xy[2] + t, xy[1] + l + w, xy[2] + t + h>>

\* x = (size - text_width) // 2 ; y = (size - text_height) // 2
OriginX(size, text_width) == (size - text_width) \div 2
OriginY(size, text_height) == (size - text_height) \div 2

\* draw.text((x, y), text, fill='white', font=font): the ink lands where
\* textbbox((x, y)) says; the canvas keeps its mode and dimensions.
DrawText(image, xy, font, prof) ==
    [image EXCEPT !.ink = [drawn |-> TRUE, box |-> TextBBox(xy, font, prof),
                           fill |-> TextColor, text |-> Label, font |-> font]]

\* img.save(filename): the PNG encoding of the image.
EncodePNG(image) ==
    [format |-> "PNG", mode |-> image.mode, width |-> image.width,
     height |-> image.height, pixels |-> [bg |-> image.bg, ink |-> image.ink]]

\* Image.open(filename) of a file img.save wrote.
DecodePNG(content) ==
    IF content.format = "PNG"
    THEN [mode |-> content.mode, width |-> content.width, height |-> content.height,
          bg |-> content.pixels.bg, ink |-> content.pixels.ink]
    ELSE NoImage

\* img.save(filename): opens the file for writing, truncating it, and writes
\* the encoding.  fault is the filesystem's: "none", "open_refused" (the file
\* is left as it was) or "write_failed" (the file is left incomplete).
Save(fsys, image, filename, fault) ==
    IF output_dir \notin fsys.dirs \/ fault = "open_refused"
    THEN [ok |-> FALSE, files |-> fsys.files]
    ELSE IF fault = "write_failed"
    THEN [ok |-> FALSE, files |-> [fsys.files EXCEPT ![filename] = PartialFile]]
    ELSE [ok |-> TRUE, files |-> [fsys.files EXCEPT ![filename] = EncodePNG(image)]]

SaveFaults == {"none", "open_refused", "write_failed"}

\* Mutant: the exception of img.save swallowed by a try/except.
AfterSaveSwallow(ok) == "print_confirm"

\* Where control goes after img.save: on to the print, or out of the script
\* with the uncaught exception.
AfterSave(ok) == IF ok THEN "print_confirm" ELSE "crashed"

\* Mutant: exit(1) missing, control falls through to the driver.
AfterInstallHintFallThrough == "makedirs"

\* Where control goes after the second message of the import guard: exit(1).
AfterInstallHint == "exit"

(* -------------------------------- state ------------------------------- *)
VARIABLES
    pc,         \* the statement about to run, or "done" / "exited" / "crashed"
    run,        \* which run of the script this is, 1..MaxRuns
    pil,        \* environment: what "from PIL import ..." does: "ok",
                \* "ImportError", or "raises" (another exception)
    encoding,   \* environment: the encoding of standard output
    buffering,  \* environment: how standard output is set up
    profile,    \* environment: how the installed fonts measure the label
    builtin,    \* environment: the built-in font of the image library
    fs,         \* the disk: [dirs, files]
    fs0,        \* history: the disk as this run found it
    stdout,     \* the bytes standard output's device has taken from this run
    buffer,     \* the bytes the stream of standard output holds, not written
    exitStatus, \* "running", or the status the process ended with
    shorts,     \* history: the writes of this run the device cut short
    rejects,    \* history: the writes of this run the device rejected
    idx,        \* how many elements of sizes the for loop has taken
    size,       \* module variable size (0: not yet bound)
    img,        \* module variable img
    filename,   \* module variable filename ("": not yet bound)
    frame,      \* the locals of the running create_icon call
    log,        \* history: the steps this run has completed
    fontsUsed,  \* history: the font each create_icon call of this run chose
    faultAt,    \* history: <<statement, size, fault>> of the call that failed
    previous    \* history: the files and fonts the run before this one left

vars == <<pc, run, pil, encoding, buffering, profile, builtin, fs, fs0, stdout,
          buffer, exitStatus, shorts, rejects, idx, size, img, filename, frame,
          log, fontsUsed, faultAt, previous>>

env == <<pil, encoding, buffering, profile, builtin>>
io == <<stdout, buffer, exitStatus, shorts, rejects>>

ImportResults == {"ok", "ImportError", "raises"}
hist == <<fs0, previous, run>>

NoFault == <<None, 0, "none">>
NoFonts == [k \in 1..Len(sizes) |-> None]
NoPrevious == [ran |-> FALSE]
NoFiles == [f \in FileNames |-> AbsentFile]

\* An icon an earlier version of the script left behind: no label on it.
StaleIcon(sz) ==
    [format |-> "PNG", mode |-> "RGB", width |-> sz, height |-> sz,
     pixels |-> [bg |-> "#000000", ink |-> NoInk]]

\* The disks the script may be started on.
InitialDisks ==
    LET all == PathPrefixes(output_dir_parts)
    IN  {[dirs |-> {}, files |-> NoFiles],
         [dirs |-> all \ {output_dir}, files |-> NoFiles],
         [dirs |-> all, files |-> NoFiles],
         [dirs |-> all, files |-> [NoFiles EXCEPT ![StrayFile] = StrayContent]],
         [dirs |-> all,
          files |-> [NoFiles EXCEPT ![StrayFile] = StrayContent,
                                    ![Filename(sizes[2])] = StaleIcon(sizes[2])]]}

Init ==
    /\ pc = "import"
    /\ run = 1
    /\ pil \in ImportResults
    /\ encoding \in Encodings
    /\ buffering \in Bufferings
    /\ profile \in Profiles
    /\ builtin \in BuiltinFonts
    /\ fs \in InitialDisks
    /\ fs0 = fs
    /\ stdout = ""
    /\ buffer = ""
    /\ exitStatus = "running"
    /\ shorts = 0
    /\ rejects = 0
    /\ idx = 0
    /\ size = 0
    /\ img = NoImage
    /\ filename = ""
    /\ frame = NoFrame
    /\ log = <<>>
    /\ fontsUsed = NoFonts
    /\ faultAt = NoFault
    /\ previous = NoPrevious

(* ------------------------------- actions ------------------------------ *)
\* The process ends at "to": the interpreter flushes what the stream of
\* standard output holds (out, buf); the device's answers are the
\* environment's, and the flushes settle the exit status.
Terminate(to, status, out, buf, sh, rj) ==
    /\ pc' = to
    /\ \E plan \in IF buf = "" THEN {<<>>} ELSE ExitPlans :
         LET r == FlushAtExit(out, buf, plan, status)
         IN  /\ r.plan = <<>>
             /\ sh + r.shorts <= MaxShortWrites
             /\ stdout' = r.out
             /\ exitStatus' = r.status
             /\ shorts' = sh + r.shorts
             /\ rejects' = rj + r.rejects
    /\ buffer' = ""

\* An exception nothing catches: the traceback goes to standard error and the
\* process ends with status 1, unless the flush at exit fails.
CrashWith(stmt, sz, fault, out, buf, sh, rj) ==
    /\ Terminate("crashed", "1", out, buf, sh, rj)
    /\ faultAt' = <<stmt, sz, fault>>

Crash(stmt, sz, fault) == CrashWith(stmt, sz, fault, stdout, buffer, shorts, rejects)

\* The statement left standard output and the process as they were.
Quiet == UNCHANGED <<io, faultAt>>

\* lines 7-9: try: from PIL import ...  except ImportError:
\* An exception that is not an ImportError passes the except clause.
Import ==
    /\ pc = "import"
    /\ IF pil = "raises"
       THEN Crash("import", 0, "raised")
       ELSE /\ pc' = IF pil = "ok" THEN "makedirs" ELSE "print_required"
            /\ Quiet
    /\ UNCHANGED <<env, hist, fs, idx, size, img, filename, frame, log, fontsUsed>>

\* A print that ran: on to next, or out with the exception it raised.
Printed(r, next, sz) ==
    /\ r.plan = <<>>
    /\ shorts + r.shorts <= MaxShortWrites
    /\ IF r.ok
       THEN /\ pc' = next
            /\ stdout' = r.out
            /\ buffer' = r.buf
            /\ shorts' = shorts + r.shorts
            /\ rejects' = rejects + r.rejects
            /\ UNCHANGED <<exitStatus, faultAt>>
       ELSE CrashWith("print", sz, r.err, r.out, r.buf,
                      shorts + r.shorts, rejects + r.rejects)

\* print(text) at a statement: the device's answers to the writes it makes
\* are the environment's.
PrintStmt(text, next, sz) ==
    \E plan \in IF buffering \in {"line", "unbuffered", "unbuffered_lines"}
                   /\ Encodable(text, encoding)
                THEN WritePlans(Len(Encode(text, encoding)))
                ELSE {<<>>} :
        Printed(PyPrint(stdout, buffer, text, encoding, buffering, plan), next, sz)

\* line 10
PrintRequired ==
    /\ pc = "print_required"
    /\ PrintStmt(MsgRequired, "print_install", 0)
    /\ UNCHANGED <<env, hist, fs, idx, size, img, filename, frame, log, fontsUsed>>

\* line 11
PrintInstall ==
    /\ pc = "print_install"
    /\ PrintStmt(MsgInstall, AfterInstallHint, 0)
    /\ UNCHANGED <<env, hist, fs, idx, size, img, filename, frame, log, fontsUsed>>

\* line 12: exit(1).  The name exit is put into the builtins by the site
\* module: where it is there (defined) the call raises SystemExit and the
\* process ends with status 1, or 120 if the flush at exit fails; where the
\* interpreter runs without site (python -S) the name is not defined and the
\* statement raises NameError, which nothing catches.
Exit ==
    /\ pc = "exit"
    /\ \E defined \in BOOLEAN :
         IF defined
         THEN /\ Terminate("exited", "1", stdout, buffer, shorts, rejects)
              /\ UNCHANGED faultAt
         ELSE Crash("exit", 0, "NameError")
    /\ UNCHANGED <<env, hist, fs, idx, size, img, filename, frame, log, fontsUsed>>

\* lines 43-47: sizes, output_dir, os.makedirs(output_dir, exist_ok=True)
MakeOutputDir ==
    /\ pc = "makedirs"
    /\ \E fault \in MakedirsFaults :
         LET r == Makedirs(fs.dirs, output_dir_parts, ExistOk, fault)
         IN  /\ fs' = [fs EXCEPT !.dirs = r.dirs]
             /\ IF r.ok
                THEN /\ pc' = "for"
                     /\ log' = Append(log, <<"makedirs", 0>>)
                     /\ Quiet
                ELSE /\ Crash("makedirs", 0, fault)
                     /\ UNCHANGED log
    /\ UNCHANGED <<env, hist, idx, size, img, filename, frame, fontsUsed>>

\* line 49: for size in sizes
For ==
    /\ pc = "for"
    /\ IF idx < Len(sizes)
       THEN /\ idx' = idx + 1
            /\ size' = sizes[idx + 1]
            /\ pc' = "new_image"
       ELSE /\ pc' = "print_summary"
            /\ UNCHANGED <<idx, size>>
    /\ UNCHANGED <<env, hist, fs, io, img, filename, frame, log, fontsUsed, faultAt>>

\* line 50 (the call), lines 16-17
CreateCanvas ==
    /\ pc = "new_image"
    /\ frame' = [active |-> TRUE, size |-> size, img |-> NewImage(size)]
    /\ pc' = "load_font"
    /\ UNCHANGED <<env, hist, fs, io, idx, size, img, filename, log, fontsUsed,
                   faultAt>>

\* lines 20-25.  ok is the environment's answer to ImageFont.truetype; the
\* bare except takes whatever it raises.
ChooseFont ==
    /\ pc = "load_font"
    /\ \E ok \in BOOLEAN :
         LET font == LoadFont(ok, font_size(frame.size), builtin)
         IN  /\ frame' = [active |-> TRUE, size |-> frame.size,
                          img |-> frame.img, font |-> font]
             /\ fontsUsed' = [fontsUsed EXCEPT ![idx] = font.kind]
    /\ pc' = "textbbox"
    /\ UNCHANGED <<env, hist, fs, io, idx, size, img, filename, log, faultAt>>

\* lines 27-35.  Nothing catches what draw.textbbox raises.
Measure ==
    /\ pc = "textbbox"
    /\ IF Measurable(frame.font, Label)
       THEN LET bbox == TextBBox(<<0, 0>>, frame.font, profile)
                text_width == bbox[3] - bbox[1]
                text_height == bbox[4] - bbox[2]
            IN  /\ frame' = [active |-> TRUE, size |-> frame.size, img |-> frame.img,
                             font |-> frame.font, bbox |-> bbox,
                             x |-> OriginX(frame.size, text_width),
                             y |-> OriginY(frame.size, text_height)]
                /\ pc' = "draw_text"
                /\ Quiet
       ELSE /\ Crash("textbbox", frame.size, "raised")
            /\ UNCHANGED frame
    /\ UNCHANGED <<env, hist, fs, idx, size, img, filename, log, fontsUsed>>

\* line 38
DrawLabel ==
    /\ pc = "draw_text"
    /\ frame' = [frame EXCEPT
                   !.img = DrawText(frame.img, <<frame.x, frame.y>>, frame.font, profile)]
    /\ pc' = "return"
    /\ UNCHANGED <<env, hist, fs, io, idx, size, img, filename, log, fontsUsed,
                   faultAt>>

\* line 40, and the assignment of line 50
Return ==
    /\ pc = "return"
    /\ img' = frame.img
    /\ frame' = NoFrame
    /\ log' = Append(log, <<"render", size>>)
    /\ pc' = "filename"
    /\ UNCHANGED <<env, hist, fs, io, idx, size, filename, fontsUsed, faultAt>>

\* line 51
SetFilename ==
    /\ pc = "filename"
    /\ filename' = Filename(size)
    /\ pc' = "save"
    /\ UNCHANGED <<env, hist, fs, io, idx, size, img, frame, log, fontsUsed, faultAt>>

\* line 52.  A failed save is not caught: control leaves the script and the
\* process ends.
SaveIcon ==
    /\ pc = "save"
    /\ \E fault \in SaveFaults :
         LET r == Save(fs, img, filename, fault)
         IN  /\ fs' = [fs EXCEPT !.files = r.files]
             /\ IF r.ok
                THEN /\ pc' = AfterSave(r.ok)
                     /\ log' = Append(log, <<"save", size>>)
                     /\ Quiet
                ELSE /\ IF AfterSave(r.ok) = "crashed"
                        THEN Terminate("crashed", "1", stdout, buffer, shorts, rejects)
                        ELSE /\ pc' = AfterSave(r.ok)
                             /\ UNCHANGED io
                     /\ faultAt' = <<"save", size, fault>>
                     /\ UNCHANGED log
    /\ UNCHANGED <<env, hist, idx, size, img, filename, frame, fontsUsed>>

\* line 53
PrintConfirm ==
    /\ pc = "print_confirm"
    /\ PrintStmt(ConfirmText(filename), "for", size)
    /\ log' = IF pc' = "for" THEN Append(log, <<"confirm", size>>) ELSE log
    /\ UNCHANGED <<env, hist, fs, idx, size, img, filename, frame, fontsUsed>>

\* line 55
PrintSummary ==
    /\ pc = "print_summary"
    /\ PrintStmt(SummaryText, "print_location", 0)
    /\ log' = IF pc' = "print_location" THEN Append(log, <<"summary", 0>>) ELSE log
    /\ UNCHANGED <<env, hist, fs, idx, size, img, filename, frame, fontsUsed>>

\* line 56
PrintLocation ==
    /\ pc = "print_location"
    /\ PrintStmt(LocationText, "eof", 0)
    /\ log' = IF pc' = "eof" THEN Append(log, <<"location", 0>>) ELSE log
    /\ UNCHANGED <<env, hist, fs, idx, size, img, filename, frame, fontsUsed>>

\* the end of the script: the interpreter flushes standard output and the
\* process ends with status 0, or 120 if the flush at exit fails
Finish ==
    /\ pc = "eof"
    /\ Terminate("done", "0", stdout, buffer, shorts, rejects)
    /\ UNCHANGED <<env, hist, fs, idx, size, img, filename, frame, log,
                   fontsUsed, faultAt>>

\* The script is started again, on the disk the run before left.
Rerun ==
    /\ pc = "done"
    /\ run < MaxRuns
    /\ run' = run + 1
    /\ previous' = [ran |-> TRUE, files |-> fs.files, fonts |-> fontsUsed]
    /\ fs0' = fs
    /\ pc' = "import"
    /\ stdout' = ""
    /\ buffer' = ""
    /\ exitStatus' = "running"
    /\ shorts' = 0
    /\ rejects' = 0
    /\ idx' = 0
    /\ size' = 0
    /\ img' = NoImage
    /\ filename' = ""
    /\ frame' = NoFrame
    /\ log' = <<>>
    /\ fontsUsed' = NoFonts
    /\ faultAt' = NoFault
    /\ UNCHANGED <<env, fs>>

Next ==
    \/ Import \/ PrintRequired \/ PrintInstall \/ Exit
    \/ MakeOutputDir \/ For
    \/ CreateCanvas \/ ChooseFont \/ Measure \/ DrawLabel \/ Return
    \/ SetFilename \/ SaveIcon \/ PrintConfirm
    \/ PrintSummary \/ PrintLocation \/ Finish
    \/ Rerun

Spec == Init /\ [][Next]_vars

(* ------------------------------- properties --------------------------- *)
\* The run found dist/icons empty or missing.
StartedEmpty == \A f \in FileNames : fs0.files[f] = AbsentFile

\* The files on the disk.
Present == {f \in FileNames : fs.files[f] # AbsentFile}

IconPaths ==
    <<"dist/icons/icon16.png", "dist/icons/icon48.png", "dist/icons/icon128.png">>
ThreeIcons == {IconPaths[k] : k \in 1..3}

\* What the script is expected to print, written out (UTF-8).
ThreeConfirmations ==
    <<"[v] dist/icons/icon16.png SNGSEO WANRYO",
      "[v] dist/icons/icon48.png SNGSEO WANRYO",
      "[v] dist/icons/icon128.png SNGSEO WANRYO">>

SixLines ==
    ThreeConfirmations \o
        <<"", "MO_DEN A__I__KONI__ SNGSEODOEEOTSEBNI_DA_!", "WI_CHI: dist/icons/">>

\* The bytes of lines, each ended by a newline.
RECURSIVE Joined(_)
Joined(lines) == IF lines = <<>> THEN "" ELSE Head(lines) \o "\n" \o Joined(Tail(lines))

SixLinesBytes == Joined(SixLines)

\* The bytes of the confirmations of the first k sizes.
ConfirmedBytes(k) == Joined(SubSeq(ThreeConfirmations, 1, k))

IsPrefix(a, b) == Len(a) <= Len(b) /\ a = SubSeq(b, 1, Len(a))

\* Standard output writes through, whichever way.
Unbuffered == buffering \in {"unbuffered", "unbuffered_lines"}

\* Standard output is open and its device has taken every write whole.
Undisturbed == buffering # "closed" /\ shorts = 0 /\ rejects = 0

\* C1 as the specification states it: a successful run started on an empty or
\* missing dist/icons, with standard output open and taking every write, ends
\* with exactly 4 lines on standard output, the three confirmations in order
\* and then one summary line naming the directory.
C1_FourLines ==
    (pc = "done" /\ exitStatus = "0" /\ StartedEmpty /\ Undisturbed) =>
        /\ Len(Lines(stdout)) = 4
        /\ SubSeq(Lines(stdout), 1, 3) = ThreeConfirmations
        /\ Lines(stdout)[4] = "WI_CHI: dist/icons/"

\* C1, amended: a run that reaches the end of the script, started on an empty
\* or missing dist/icons, with standard output open and its device taking
\* every write whole, exits with status 0 and has delivered exactly 6 lines:
\* the three confirmations for icon16.png, icon48.png, icon128.png in that
\* order, an empty line, the completion message, and exactly one line naming
\* the output directory.  Without those provisos a finished run has
\* delivered no more than the bytes of these lines: nothing when standard
\* output is closed, an initial part of them when it is buffered, all of
\* them when it is line-buffered.  While an undisturbed run goes on, what is
\* delivered and what the stream holds are together an initial part of them.
C1_SixLines ==
    /\ (pc = "done" /\ StartedEmpty /\ Undisturbed) =>
           /\ exitStatus = "0"
           /\ stdout = SixLinesBytes
           /\ Lines(stdout) = SixLines
           /\ Len(Lines(stdout)) = 6
    /\ pc = "done" =>
           /\ Len(stdout) <= Len(SixLinesBytes)
           /\ buffering = "closed" => stdout = ""
           /\ buffering \in {"block", "line"} => IsPrefix(stdout, SixLinesBytes)
           /\ buffering = "line" => stdout = SixLinesBytes
    /\ (pil = "ok" /\ Undisturbed) => IsPrefix(stdout \o buffer, SixLinesBytes)

C1_Witness ==
    /\ pc = "done"
    /\ exitStatus = "0"
    /\ buffering = "block"
    /\ StartedEmpty
    /\ Undisturbed
    /\ "dist/icons" \notin fs0.dirs
    /\ Len(Lines(stdout)) = 6

\* C2 as the specification states it: a run that reaches the end of the
\* script, started on an empty or missing dist/icons, leaves dist and
\* dist/icons present, dist/icons holding exactly icon16.png, icon48.png and
\* icon128.png, and ends with exit status 0.
C2_ExitSuccess ==
    (pc = "done" /\ StartedEmpty) =>
        /\ {"dist", "dist/icons"} \subseteq fs.dirs
        /\ Present = ThreeIcons
        /\ exitStatus = "0"

\* C2, amended: a run that reaches the end of the script, started on an empty
\* or missing dist/icons, leaves dist and dist/icons present, dist/icons
\* holding exactly icon16.png, icon48.png and icon128.png, each a PNG.  It
\* ends with exit status 0 or 120: 120 exactly when standard output is
\* block-buffered and its device rejected the first two flushes at exit, 0
\* otherwise, and so always 0 when the device rejected no write.
C2_FinalDisk ==
    (pc = "done" /\ StartedEmpty) =>
        /\ {"dist", "dist/icons"} \subseteq fs.dirs
        /\ Present = ThreeIcons
        /\ \A f \in Present : fs.files[f].format = "PNG"
        /\ exitStatus \in {"0", "120"}
        /\ exitStatus = "120" <=> (buffering = "block" /\ rejects >= 2)
        /\ rejects = 0 => exitStatus = "0"
        /\ buffer = ""

C2_Witness ==
    /\ pc = "done"
    /\ StartedEmpty
    /\ fs0.dirs = {}
    /\ Cardinality(Present) = 3
    /\ exitStatus = "120"
    /\ stdout = SixLinesBytes

\* The two messages of the import guard as standard output's encoding writes
\* them; an encoding without Hangul writes nothing of them.
TwoMessagesBytes ==
    CASE encoding = "utf-8" ->
             "Pillow RA_I__BEUREORI_GA_ PILYO_HABNI_DA_.\nSELCHI: pip install Pillow\n"
      [] encoding = "cp949" ->
             "Pillow RAI_BERERIGA PIYOHANIDA.\nSECH: pip install Pillow\n"
      [] OTHER -> ""

\* The states no step of the driver has been taken in.
NothingAttempted ==
    /\ pc \in {"import", "print_required", "print_install", "exit", "exited", "crashed"}
    /\ fs = fs0
    /\ log = <<>>
    /\ frame = NoFrame /\ img = NoImage
    /\ Len(stdout) + Len(buffer) <= Len(TwoMessagesBytes)
    /\ ~Unbuffered => IsPrefix(stdout \o buffer, TwoMessagesBytes)

\* C3 as the specification states it: when the drawing library cannot be
\* imported, the run prints exactly the two messages and ends with a non-zero
\* status, and on the way the disk is never touched, no step of the driver
\* runs and nothing else is printed.
C3_TwoLines ==
    pil # "ok" =>
        /\ NothingAttempted
        /\ exitStatus # "0"
        /\ pc \in {"exited", "crashed"} =>
               /\ Len(Lines(stdout)) = 2
               /\ stdout = TwoMessagesBytes
               /\ exitStatus # "running"

\* C3, amended: when the import fails the run ends with a non-zero status (1
\* or 120) and on the way the disk is never touched, no step of the driver
\* runs and nothing but bytes of the two messages is written.  It leaves by
\* exit(1) only when the failure is an ImportError, both prints returned and
\* the name exit is defined; then, standard output being open and its device
\* taking every write whole, exactly the two messages were delivered and the
\* status is 1; with standard output closed nothing is delivered and the
\* status is 1; the status is 120 only when the device rejected two flushes
\* at exit.  Otherwise the run ends with an uncaught exception: the one the
\* import raised, the UnicodeEncodeError of a print whose message standard
\* output cannot encode, the OSError of a print whose write the device
\* rejected, or the NameError of exit where the site module is not loaded.
C3_ImportGuard ==
    pil # "ok" =>
        /\ NothingAttempted
        /\ exitStatus \in {"running", "1", "120"}
        /\ pc \in {"exited", "crashed"} <=> exitStatus # "running"
        /\ exitStatus = "120" => buffering \in {"block", "line"} /\ rejects >= 2
        /\ pc = "exit" =>
               /\ pil = "ImportError"
               /\ buffering = "closed" \/ encoding # "ascii"
               /\ Undisturbed => stdout \o buffer = TwoMessagesBytes
        /\ pc = "exited" =>
               /\ pil = "ImportError" /\ faultAt = NoFault
               /\ buffering = "closed" \/ encoding # "ascii"
               /\ buffering = "closed" => stdout = "" /\ exitStatus = "1"
               /\ Undisturbed => stdout = TwoMessagesBytes /\ exitStatus = "1"
        /\ pc = "crashed" =>
               \/ /\ pil = "raises" /\ faultAt = <<"import", 0, "raised">>
                  /\ stdout = "" /\ exitStatus = "1"
               \/ /\ pil = "ImportError" /\ faultAt = <<"print", 0, "encode">>
                  /\ encoding = "ascii" /\ buffering # "closed"
                  /\ stdout = "" /\ exitStatus = "1"
               \/ /\ pil = "ImportError" /\ faultAt = <<"print", 0, "oserror">>
                  /\ (buffering = "line" \/ Unbuffered) /\ rejects >= 1
                  /\ Unbuffered => exitStatus = "1"
               \/ /\ pil = "ImportError" /\ faultAt = <<"exit", 0, "NameError">>
                  /\ buffering = "closed" => stdout = "" /\ exitStatus = "1"
                  /\ Undisturbed => stdout = TwoMessagesBytes /\ exitStatus = "1"

C3_Witness ==
    /\ pil = "ImportError"
    /\ encoding = "cp949"
    /\ pc = "exited"
    /\ exitStatus = "1"
    /\ Len(Lines(stdout)) = 2
    /\ stdout = "Pillow RAI_BERERIGA PIYOHANIDA.\nSECH: pip install Pillow\n"
    /\ "dist" \notin fs.dirs

\* The statements of create_icon, and of the loop body after it.
InCreateIcon == pc \in {"load_font", "textbbox", "draw_text", "return"}
AfterCreateIcon == pc \in {"filename", "save", "print_confirm"}

\* C4 as the specification states it: a fault of the system font never fails
\* the run: the call goes on with the built-in font on a canvas of the
\* requested size, and no run ever stops inside create_icon.
C4_FontFallback ==
    /\ faultAt[1] \notin {"load_font", "textbbox", "draw_text"}
    /\ (InCreateIcon /\ pc # "load_font" /\ frame.font.kind = "default") =>
           /\ frame.img.width = frame.size
           /\ frame.img.height = frame.size

\* C5: every image create_icon works on and returns is size x size, whatever
\* font was chosen and whatever the label measured; drawing the label leaves
\* the dimensions alone, and so every icon file written decodes to a square
\* of its size.
C5_Square ==
    /\ (pc \in {"load_font", "textbbox", "draw_text", "return"}) =>
           /\ frame.img.width = frame.size /\ frame.img.height = frame.size
           /\ frame.size = size
    /\ AfterCreateIcon =>
           /\ img.width = size /\ img.height = size
           /\ img.ink.drawn
    /\ \A k \in 1..3 :
           LET sz == <<16, 48, 128>>[k]
               c == fs.files[Filename(sz)]
           IN  c.format = "PNG" =>
                   DecodePNG(c).width = sz /\ DecodePNG(c).height = sz

C5_Witness ==
    /\ pc = "filename"
    /\ size = 128
    /\ img.width = 128 /\ img.height = 128
    /\ img.ink.drawn
    /\ img.ink.font.kind = "default"
    /\ img.ink.box[1] # img.ink.box[2]

CanonicalLog ==
    << <<"makedirs", 0>>,
       <<"render", 16>>, <<"save", 16>>, <<"confirm", 16>>,
       <<"render", 48>>, <<"save", 48>>, <<"confirm", 48>>,
       <<"render", 128>>, <<"save", 128>>, <<"confirm", 128>>,
       <<"summary", 0>>, <<"location", 0>> >>

\* C6: the driver is linear.  The steps a run has completed are always an
\* initial part of: ensure directory, then for 16, 48, 128 in that order
\* render, save, confirm, then the summary; a render begins only when the
\* directory is ensured and every earlier size is saved and confirmed; the
\* confirmation of a size is printed only when its file is on the disk,
\* written by this run with the label drawn: that holds when the print is
\* about to run, when it has run, and whenever standard output has been
\* given more bytes than the confirmations of the sizes before it take; a
\* finished run has done every step once.
C6_Linear ==
    /\ IsPrefix(log, CanonicalLog)
    /\ (pc \in {"new_image", "load_font", "textbbox", "draw_text", "return"}) =>
           /\ idx \in 1..3
           /\ size = <<16, 48, 128>>[idx]
           /\ log = SubSeq(CanonicalLog, 1, 1 + 3 * (idx - 1))
    /\ pc = "print_confirm" =>
           /\ filename = IconPaths[idx]
           /\ fs.files[filename] = EncodePNG(img)
           /\ log = SubSeq(CanonicalLog, 1, 3 * idx)
    /\ \A k \in 1..3 :
           (pil = "ok" /\
               (\/ Len(stdout) + Len(buffer) > Len(ConfirmedBytes(k - 1))
                \/ \E j \in 1..Len(log) : log[j] = <<"confirm", <<16, 48, 128>>[k]>>)) =>
               /\ \E j \in 1..Len(log) : log[j] = <<"save", <<16, 48, 128>>[k]>>
               /\ fs.files[IconPaths[k]].format = "PNG"
               /\ fs.files[IconPaths[k]].width = <<16, 48, 128>>[k]
               /\ fs.files[IconPaths[k]].pixels.ink.drawn
    /\ pc = "done" => log = CanonicalLog

C6_Witness ==
    /\ pc = "done"
    /\ log = CanonicalLog
    /\ buffering = "unbuffered"
    /\ shorts = 1
    /\ Len(stdout) > Len(ConfirmedBytes(2))

\* The faults that come from outside the script: the filesystem refusing a
\* call, the device of standard output rejecting a write.
OutsideFaults == {"refused", "leaf_refused", "open_refused", "write_failed", "oserror"}

Abs(n) == IF n < 0 THEN 0 - n ELSE n

\* C9 as the specification states it: whatever box the label measures, the
\* ink of the drawn label has left and right margins to the canvas edges that
\* differ by at most 1 pixel, and so have its top and bottom margins.
C9_Centered ==
    pc = "return" =>
        LET b == frame.img.ink.box
            s == frame.size
        IN  /\ Abs(b[1] - (s - b[3])) <= 1
            /\ Abs(b[2] - (s - b[4])) <= 1

\* How many sizes were saved and confirmed before the call that failed.
SizesBeforeFault ==
    IF faultAt[1] = "makedirs" THEN 0
    ELSE CHOOSE k \in 0..2 : <<16, 48, 128>>[k + 1] = faultAt[2]

\* C10: when os.makedirs or img.save fails, the run stops there with a
\* non-zero exit status (1 or 120) and takes no further step; the icons of
\* the sizes before the failing one are on the disk as this run wrote them,
\* the files of the later sizes are as the run found them, and standard
\* output has been given nothing but confirmations of the earlier sizes: no
\* more bytes than they take; an initial part of them when it is buffered;
\* all of them, with status 1, when it is open and its device took every
\* write whole; nothing when it is closed.  The status is 120 only when it
\* is block-buffered and its device rejected two flushes at exit.
C10_NoRetryNoRollback ==
    faultAt[1] \in {"makedirs", "save"} =>
        /\ pc = "crashed"
        /\ exitStatus \in {"1", "120"}
        /\ ~ENABLED Next
        /\ faultAt[1] = "makedirs" => fs.files = fs0.files /\ log = <<>>
        /\ faultAt[1] # "makedirs" =>
               log = SubSeq(CanonicalLog, 1, 2 + 3 * SizesBeforeFault)
        /\ Len(stdout) <= Len(ConfirmedBytes(SizesBeforeFault))
        /\ ~Unbuffered =>
               IsPrefix(stdout, ConfirmedBytes(SizesBeforeFault))
        /\ Undisturbed =>
               stdout = ConfirmedBytes(SizesBeforeFault) /\ exitStatus = "1"
        /\ buffering = "closed" => stdout = "" /\ exitStatus = "1"
        /\ exitStatus = "120" =>
               SizesBeforeFault > 0 /\ buffering = "block" /\ rejects >= 2
        /\ \A j \in 1..3 :
               /\ j <= SizesBeforeFault =>
                      /\ fs.files[IconPaths[j]].format = "PNG"
                      /\ fs.files[IconPaths[j]].width = <<16, 48, 128>>[j]
                      /\ fs.files[IconPaths[j]].pixels.ink.drawn
                      /\ fs.files[IconPaths[j]].pixels.ink.font.kind = fontsUsed[j]
               /\ j > SizesBeforeFault + 1 =>
                      fs.files[IconPaths[j]] = fs0.files[IconPaths[j]]

C10_Witness ==
    /\ pc = "crashed"
    /\ faultAt = <<"save", 48, "write_failed">>
    /\ fs.files["dist/icons/icon16.png"].format = "PNG"
    /\ fs.files["dist/icons/icon48.png"] = PartialFile
    /\ fs.files["dist/icons/icon128.png"] = AbsentFile
    /\ exitStatus = "1"
    /\ stdout = "[v] dist/icons/icon16.png SNGSEO WANRYO\n"

====
